---- MODULE Spec2Model ----
(***************************************************************************)
(* reel2yt: perceptual-fingerprint matching of a reference reel against a  *)
(* pool of YouTube candidates.                                             *)
(*                                                                         *)
(* Modelled: app/core/fingerprint.py (frame_similarity_score,              *)
(* audio_similarity_score, cosine, fuse_scores) and app/services/matcher.py*)
(* (_title_boost, _duration_ok, score_candidate, rank_candidates,          *)
(* pick_best).                                                             *)
(*                                                                         *)
(* Numbers.  Python floats are modelled in fixed point: a real x is the    *)
(* integer x * SCALE.  SCALE is divisible by 128, by 10000 and by 3, so    *)
(* the medians, closeness values, the weights 0.6/0.4/0.7/0.3/0.15 and the *)
(* thresholds 0.62/0.55 are exact.  An arithmetic expression of the source *)
(* is evaluated exactly and truncated once, which stands for the rounding  *)
(* of the float result.                                                    *)
(***************************************************************************)
EXTENDS Integers, Sequences, FiniteSets, TLC

SCALE == 128 * 15000

\* Optional[T]: None, or Some(x) for a value x
None == [some |-> FALSE]
Some(x) == [some |-> TRUE, val |-> x]

\* ---------------------------------------------------------------- bounds
MaxLenA == 3       \* longest reference hash list drawn (hashes_a)
MaxLenB == 2       \* longest candidate hash list drawn (hashes_b)
FuseGrid == 8      \* frame scores / audio similarities drawn as i/FuseGrid
VecLen == 2        \* dimension of the audio vectors drawn
MaxPool == 3       \* longest candidate pool drawn for rank_candidates

\* ------------------------------------------------------ program constants
HashBits == 64     \* _HASH_SIZE = 8: an 8x8 pHash has 64 bits
HexLen == 16       \* its hex string has 16 digits
HASH_THRESHOLD == 8

\* ------------------------------------------------------------- sequences
RECURSIVE SumSeq(_)
SumSeq(s) == IF s = <<>> THEN 0 ELSE Head(s) + SumSeq(Tail(s))

\* min(...) of a non-empty list
MinSeq(s) == CHOOSE m \in {s[k] : k \in DOMAIN s} : \A k \in DOMAIN s : m <= s[k]

\* Op applied to the value of x, with x evaluated once
Bind(x, Op(_)) == CHOOSE r \in {Op(v) : v \in {x}} : TRUE

Max(x, y) == IF x >= y THEN x ELSE y
Min(x, y) == IF x <= y THEN x ELSE y
Abs(x) == IF x < 0 THEN -x ELSE x

\* insertion of x into an ascending list, after the elements equal to it
RECURSIVE InsertAsc(_, _)
InsertAsc(x, s) == IF s = <<>> THEN <<x>>
                   ELSE IF x < Head(s) THEN <<x>> \o s
                   ELSE <<Head(s)>> \o InsertAsc(x, Tail(s))

\* ascending sort of a list of integers (np.median / np.percentile sort)
RECURSIVE SortAsc(_)
SortAsc(s) == IF s = <<>> THEN <<>>
              ELSE InsertAsc(s[Len(s)], SortAsc(SubSeq(s, 1, Len(s) - 1)))

SeqsUpTo(S, n) == UNION {[1..k -> S] : k \in 0..n}

\* ------------------------------------------------------------ pHash hex
\* A hash is the hex string imagehash prints: HexLen digits, here a tuple
\* of digit values 0..15, most significant digit first.
HexDigitBits(d) == <<(d \div 8) % 2, (d \div 4) % 2, (d \div 2) % 2, d % 2>>

\* imagehash.hex_to_hash: the bit array of the hex string
hex_to_hash(hx) ==
  [k \in 1..HashBits |-> HexDigitBits(hx[((k - 1) \div 4) + 1])[((k - 1) % 4) + 1]]

\* ImageHash.__sub__: number of differing bits
hamming(a, b) == Cardinality({k \in 1..HashBits : a[k] # b[k]})

\* hashes at known distances from each other
HexLow(nOnes) ==
  [i \in 1..HexLen |->
     LET bitsBelow == 4 * (HexLen - i)
     IN  IF nOnes >= bitsBelow + 4 THEN 15
         ELSE IF nOnes <= bitsBelow THEN 0
         ELSE CASE nOnes - bitsBelow = 1 -> 1
                [] nOnes - bitsBelow = 2 -> 3
                [] OTHER -> 7]
H0 == HexLow(0)
H8 == HexLow(8)
H9 == HexLow(9)
HF == HexLow(64)
HashPool == {H0, H8, H9, HF}
Thresholds == {0, HASH_THRESHOLD}

\* --------------------------------------------------- frame similarity
FrameMatchStats(median, mean, p25, p75, match_frac, score) ==
  [median |-> median, mean |-> mean, p25 |-> p25, p75 |-> p75,
   match_frac |-> match_frac, score |-> score]

\* np.median of the distances, in fixed point
np_median(dists) ==
  Bind(SortAsc(dists), LAMBDA s :
    LET n == Len(s)
    IN  IF n % 2 = 1 THEN s[(n + 1) \div 2] * SCALE
        ELSE ((s[n \div 2] + s[(n \div 2) + 1]) * SCALE) \div 2)

\* np.mean of the distances
np_mean(dists) == (SumSeq(dists) * SCALE) \div Len(dists)

\* np.percentile(arr, q) with q = q4 * 25, linear interpolation
np_percentile(dists, q4) ==
  Bind(SortAsc(dists), LAMBDA s :
    LET n == Len(s)
        pos4 == q4 * (n - 1)
        lo == pos4 \div 4
        rem == pos4 % 4
    IN  IF rem = 0 THEN s[lo + 1] * SCALE
        ELSE s[lo + 1] * SCALE + (rem * (s[lo + 2] - s[lo + 1]) * SCALE) \div 4)

\* variant: only distances strictly below the threshold count as matched
match_fraction_strict(dists, t) ==
  (Cardinality({i \in 1..Len(dists) : dists[i] < t}) * SCALE) \div Len(dists)

\* np.mean(arr <= t)
match_fraction(dists, t) ==
  (Cardinality({i \in 1..Len(dists) : dists[i] <= t}) * SCALE) \div Len(dists)

\* variant: the distance of each hash of a to the farthest hash of b
nearest_dists_farthest(hashes_a, hashes_b) ==
  Bind([i \in 1..Len(hashes_a) |-> hex_to_hash(hashes_a[i])], LAMBDA A :
  Bind([j \in 1..Len(hashes_b) |-> hex_to_hash(hashes_b[j])], LAMBDA B :
    [i \in 1..Len(A) |-> -MinSeq([j \in 1..Len(B) |-> -hamming(A[i], B[j])])]))

\* lines 134-140: dists, the distance of each hash of a to its nearest in b
nearest_dists(hashes_a, hashes_b) ==
  Bind([i \in 1..Len(hashes_a) |-> hex_to_hash(hashes_a[i])], LAMBDA A :
  Bind([j \in 1..Len(hashes_b) |-> hex_to_hash(hashes_b[j])], LAMBDA B :
    [i \in 1..Len(A) |-> MinSeq([j \in 1..Len(B) |-> hamming(A[i], B[j])])]))

\* variant: closeness is measured against the threshold, not the 64 bits
stats_of_dists_threshold_closeness(dists, t) ==
  Bind(np_median(dists), LAMBDA median :
  Bind(match_fraction(dists, t), LAMBDA match_frac :
    LET closeness == IF t = 0 THEN 0 ELSE Max(0, SCALE - (median \div t))
        score == (6 * match_frac + 4 * closeness) \div 10
    IN  FrameMatchStats(median, np_mean(dists), np_percentile(dists, 1),
                        np_percentile(dists, 3), match_frac, score)))

\* lines 142-151: the statistics of dists
stats_of_dists(dists, t) ==
  Bind(np_median(dists), LAMBDA median :
  Bind(match_fraction(dists, t), LAMBDA match_frac :
    LET closeness == Max(0, SCALE - (median \div 64))
        score == (6 * match_frac + 4 * closeness) \div 10
    IN  FrameMatchStats(median, np_mean(dists), np_percentile(dists, 1),
                        np_percentile(dists, 3), match_frac, score)))

frame_similarity_score(hashes_a, hashes_b, t) ==
  IF hashes_a = <<>> \/ hashes_b = <<>>
  THEN FrameMatchStats(64 * SCALE, 64 * SCALE, 64 * SCALE, 64 * SCALE, 0, 0)
  ELSE Bind(nearest_dists(hashes_a, hashes_b), LAMBDA dists : stats_of_dists(dists, t))

\* ------------------------------------------------------ audio similarity
NormScale == 100     \* norms are kept to two decimals
CosScale == 1000     \* a cosine is kept to three decimals

\* largest r with r * r <= x, by bisection on lo..hi
RECURSIVE ISqrtIn(_, _, _)
ISqrtIn(x, lo, hi) ==
  IF lo >= hi THEN lo
  ELSE LET mid == (lo + hi + 1) \div 2
       IN  IF mid * mid <= x THEN ISqrtIn(x, mid, hi) ELSE ISqrtIn(x, lo, mid - 1)

\* np.linalg.norm, in units of 1/NormScale
norm(v) ==
  LET x == SumSeq([k \in 1..Len(v) |-> v[k] * v[k]]) * NormScale * NormScale
  IN  ISqrtIn(x, 0, 4000)

\* np.dot
dot(a, b) == SumSeq([k \in 1..Len(a) |-> a[k] * b[k]])

\* variant: the dot product is divided by the squared norm of the first vector
cosine_first_norm(a, b) ==
  LET da == norm(a)
      db == norm(b)
  IN  IF da = 0 \/ db = 0 THEN 0
      ELSE ((dot(a, b) * NormScale * NormScale * CosScale) \div (da * da))
             * (SCALE \div CosScale)

cosine(a, b) ==
  Bind(norm(a), LAMBDA da :
  Bind(norm(b), LAMBDA db :
    IF da = 0 \/ db = 0 THEN 0
    ELSE ((dot(a, b) * NormScale * NormScale * CosScale) \div (da * db))
           * (SCALE \div CosScale)))

\* "not vec": None or the empty list
FalsyVec(vec) == ~vec.some \/ vec.val = <<>>

audio_similarity_score(vec_a, vec_b) ==
  IF FalsyVec(vec_a) \/ FalsyVec(vec_b) THEN 0
  ELSE Max(0, Min(SCALE, cosine(vec_a.val, vec_b.val)))

VecComponents == {-1, 0, 1, 2}
AudioVecs == [1..VecLen -> VecComponents]
OptAudioVecs == {Some(v) : v \in AudioVecs} \cup {None, Some(<<>>)}

\* ----------------------------------------------------------------- fusion
CombinedScore(frames, audio, fused) ==
  [frames |-> frames, audio |-> audio, fused |-> fused]

\* variant: the weighted sum is used whatever the audio similarity
fuse_scores_always_weighted(stats, a_sim) ==
  CombinedScore(stats, a_sim, (7 * stats.score + 3 * a_sim) \div 10)

\* variant: any positive audio similarity counts as a full one
fuse_scores_flat_audio(stats, a_sim) ==
  CombinedScore(stats, a_sim,
                IF a_sim > 0 THEN (7 * stats.score + 3 * SCALE) \div 10
                ELSE stats.score)

fuse_scores(stats, a_sim) ==
  CombinedScore(stats, a_sim,
                IF a_sim > 0
                THEN (7 * stats.score + 3 * a_sim) \div 10
                ELSE stats.score)

\* the values i/FuseGrid of [0,1]
UnitGrid == {(i * SCALE) \div FuseGrid : i \in 0..FuseGrid}

\* a FrameMatchStats whose score is f (fuse_scores reads only the score)
StatsWithScore(f) == FrameMatchStats(0, 0, 0, 0, SCALE, f)

\* --------------------------------------------------------------- matcher
\* str.lower on the titles of the model
Lower(t) == CASE t = "Clip HD" -> "clip hd"
              [] OTHER -> t

\* candidate media: what download_video + quick_video_fp yield for a video,
\* frame hashes (video_to_frame_hashes) and audio vector
\* (prepare_audio_vec_for_video, None when the video has no usable audio)
VideoIds == {"va", "vb", "vd", "ve"}
Media(video_id) ==
  CASE video_id = "va" -> [hashes |-> <<H0, H9, HF>>, avec |-> Some(<<1, 0>>)]
    [] video_id = "vb" -> [hashes |-> <<H0>>,         avec |-> None]
    [] video_id = "vd" -> [hashes |-> <<H8>>,         avec |-> Some(<<1, 2>>)]
    [] video_id = "ve" -> [hashes |-> <<H8>>,         avec |-> Some(<<1, 9>>)]
    [] video_id = "vf" -> [hashes |-> <<H9>>,         avec |-> None]
    [] video_id = "vg" -> [hashes |-> <<HF>>,         avec |-> None]
    [] video_id = "vh" -> [hashes |-> <<H0>>,         avec |-> Some(<<1, 0>>)]
    [] video_id = "vi" -> [hashes |-> <<H9>>,         avec |-> Some(<<1, 2>>)]
    [] video_id = "vj" -> [hashes |-> <<HF>>,         avec |-> Some(<<1, 9>>)]
    [] video_id = "vk" -> [hashes |-> <<H0>>,         avec |-> Some(<<1, 9>>)]

FrameLimit == 40

Take(s, n) == SubSeq(s, 1, Min(n, Len(s)))

\* A frame directory is the list of its frame_*.jpg images in name order.  An
\* image PIL can open is written as its pHash hex string; BadFrame is an image
\* it cannot open (Image.open raises).
BadFrame == <<>>

\* _hash_image raises for BadFrame
hash_image_raises(img) == img = BadFrame

\* frame_hashes_from_dir(frames_dir, limit): the comprehension hashes the first
\* `limit` images (all of them when limit is None or 0); an exception of
\* _hash_image leaves the function
frame_hashes_from_dir(frames, limit) ==
  LET fs == IF limit # 0 THEN Take(frames, limit) ELSE frames
  IN  IF \E k \in DOMAIN fs : hash_image_raises(fs[k])
      THEN [raised |-> TRUE, hashes |-> <<>>]
      ELSE [raised |-> FALSE, hashes |-> fs]

\* ------------------------------------------------------ fingerprint store
MaxMtime == 1      \* the video file is modified at most MaxMtime times
MaxVer == 2        \* _VER is bumped up to "fp_v<MaxVer>"
MaxCalls == 2      \* extractor calls made in one behaviour

\* stride_sec in tenths of a second; the limit argument
Strides == {8, 16}
Limits == {1, FrameLimit}

\* variant: the extraction parameters are left out of the signature
video_sig_no_extra(mtime, extra, ver) == [mtime |-> mtime, extra |-> 0, ver |-> ver]

\* _video_sig of the one video path: the sha1 of "path|mtime|extra|_VER",
\* written as the triple it is computed from (no collisions)
video_sig(mtime, extra, ver) == [mtime |-> mtime, extra |-> extra, ver |-> ver]

FrameSigs == [mtime : 0..MaxMtime, extra : Strides \cup {0}, ver : 1..MaxVer]

\* what a cache file holds: no file, text that is not JSON, a falsy JSON
\* value ([] {} null 0 ""), a non-empty JSON list, or a JSON object with
\* optional "ver" and optional payload ("hashes" / "vec")
FileRec(kind, ver, payload) == [kind |-> kind, ver |-> ver, payload |-> payload]
NoFile == FileRec("absent", None, None)
Garbage == FileRec("garbage", None, None)
JsonFalsy == FileRec("falsy", None, None)
JsonList == FileRec("list", None, None)
JsonDict(ver, payload) == FileRec("dict", ver, payload)

\* _load_json: None when the text does not parse, else the parsed value
load_json(file) == IF file.kind = "garbage" THEN None ELSE Some(file)

\* truth value of "data" in "if data and ..."
Truthy(data) == data.some /\ data.val.kind \in {"list", "dict"}

\* data.get("ver") == _VER
VersionMatches(data, ver) == data.val.ver = Some(ver)

\* the frames ffmpeg samples at the stride: every frame at 0.8 s, every
\* second one at 1.6 s
Sampled(frames, stride_sec) ==
  IF stride_sec = 8 THEN frames
  ELSE [k \in 1..((Len(frames) + 1) \div 2) |-> frames[2 * k - 1]]

\* extract_frames into the tmp directory: -frames:v limit, then frames[:limit]
extract_frames(frames, stride_sec, limit) ==
  IF limit > 0 THEN Take(Sampled(frames, stride_sec), limit)
  ELSE Sampled(frames, stride_sec)

\* one call of video_to_frame_hashes: its arguments, the key the signature is
\* computed from, the file found, the exception that left it ("" for none),
\* the returned list, and whether extract_frames ran
FrameCall(stride_sec, limit, mtime, ver, found, error, ret, extracted) ==
  [stride |-> stride_sec, limit |-> limit, mtime |-> mtime, ver |-> ver,
   found |-> found, error |-> error, ret |-> ret, extracted |-> extracted]

\* variant: a stored record is never used
CacheUsable_never(file) == FALSE

\* cache.exists()
CacheUsable(file) == file.kind # "absent"

\* video_to_frame_hashes.  fx is the outcome of ffmpeg in extract_frames.
\* Yields the call and the store it leaves.
video_to_frame_hashes(store, vid, stride_sec, limit, ver, fx) ==
  LET sig == video_sig(vid.mtime, stride_sec, ver)
      file == store[sig]
      data == load_json(file)
      call(error, ret, extracted) ==
        FrameCall(stride_sec, limit, vid.mtime, ver, file, error, ret, extracted)
  IN  IF CacheUsable(file) /\ Truthy(data) /\ data.val.kind # "dict"
      THEN [call |-> call("AttributeError", <<>>, FALSE), store |-> store]
      ELSE IF CacheUsable(file) /\ Truthy(data) /\ VersionMatches(data, ver)
      THEN [call |-> call("", IF data.val.payload.some THEN data.val.payload.val
                              ELSE <<>>, FALSE),
            store |-> store]
      ELSE IF fx # "ok"
      THEN [call |-> call("FFMpegError", <<>>, TRUE), store |-> store]
      ELSE LET h == frame_hashes_from_dir(extract_frames(vid.frames, stride_sec, limit),
                                          limit)
           IN  IF h.raised
               THEN [call |-> call("UnidentifiedImageError", <<>>, TRUE), store |-> store]
               ELSE [call |-> call("", h.hashes, TRUE),
                     store |-> [store EXCEPT ![sig] = JsonDict(Some(ver), Some(h.hashes))]]

\* ------------------------------------------------------- audio extractor
\* a wav file: whether it exists, its st_mtime_ns and what librosa finds in
\* it: a signal with a chroma vector, no sample (y.size == 0), silence (the
\* mean chroma has norm 0), or bytes it cannot decode (librosa.load raises)
Wav(exists, mtime, signal) == [exists |-> exists, mtime |-> mtime, signal |-> signal]
Signals == {"ok", "empty", "silent", "undecodable"}

\* the normalised mean chroma of the "ok" signal
ChromaVec == <<1, 0>>

AudioSigs == [mtime : 0..MaxMtime, extra : {0}, ver : 1..MaxVer]
EmptyAudioStore == [sig \in AudioSigs |-> NoFile]

\* one call of audio_vec_from_wav or prepare_audio_vec_for_video: the
\* function, the wav it read, the file found in the store, the exception that
\* left it ("" for none), the returned Optional vector, whether the chroma
\* computation ran (librosa.load was reached) and whether a record was written
AudioCall(fn, w, ver, found, error, ret, computed, wrote) ==
  [fn |-> fn, wav |-> w, ver |-> ver, found |-> found, error |-> error, ret |-> ret,
   computed |-> computed, wrote |-> wrote]

\* audio_vec_from_wav.  _video_sig stats the file before the try block.
\* Yields the call and the store it leaves.
audio_vec_from_wav(store, w, ver) ==
  IF ~w.exists
  THEN [call |-> AudioCall("audio_vec_from_wav", w, ver, NoFile, "FileNotFoundError",
                           None, FALSE, FALSE),
        store |-> store]
  ELSE
    LET sig == video_sig(w.mtime, 0, ver)
        file == store[sig]
        data == load_json(file)
        call(error, ret, computed, wrote) ==
          AudioCall("audio_vec_from_wav", w, ver, file, error, ret, computed, wrote)
    IN  IF CacheUsable(file) /\ Truthy(data) /\ data.val.kind # "dict"
        THEN [call |-> call("AttributeError", None, FALSE, FALSE), store |-> store]
        ELSE IF CacheUsable(file) /\ Truthy(data) /\ VersionMatches(data, ver)
        THEN [call |-> call("", data.val.payload, FALSE, FALSE), store |-> store]
        ELSE IF w.signal # "ok"
        THEN [call |-> call("", None, TRUE, FALSE), store |-> store]
        ELSE [call |-> call("", Some(ChromaVec), TRUE, TRUE),
              store |-> [store EXCEPT ![sig] = JsonDict(Some(ver), Some(ChromaVec))]]

\* the tmp wav after extract_audio_wav rewrote it: a later st_mtime_ns
Extracted(w) == Wav(TRUE, IF w.exists THEN w.mtime + 1 ELSE 0, w.signal)

\* prepare_audio_vec_for_video.  w is the tmp wav of the video as it stands
\* (w.signal is the audio of the video) and ax the outcome of ffmpeg in
\* extract_audio_wav.  Yields the call, the store and the tmp wav it leaves.
prepare_audio_vec_for_video(store, w, ver, ax) ==
  IF ax # "ok"
  THEN [call |-> AudioCall("prepare_audio_vec_for_video", w, ver, NoFile, "", None,
                           FALSE, FALSE),
        store |-> store, wav |-> w]
  ELSE LET r == audio_vec_from_wav(store, Extracted(w), ver)
       IN  [call |-> [r.call EXCEPT !.fn = "prepare_audio_vec_for_video"],
            store |-> r.store, wav |-> Extracted(w)]

\* cfg.frame_stride_sec (FRAME_STRIDE_SEC = 0.8) and _VER = "fp_v1"
FRAME_STRIDE_SEC == 8
VER_1 == 1
EmptyFrameStore == [sig \in FrameSigs |-> NoFile]

\* outcomes of ffmpeg in extract_frames: the frames, or FFMpegError
ExtractOutcomes == {"ok", "FFMpegError"}

\* quick_video_fp on a freshly downloaded candidate (no record stored for it
\* yet): video_to_frame_hashes, whose exception leaves the function, and
\* prepare_audio_vec_for_video
quick_video_fp(video_id, limit, fx) ==
  LET r == video_to_frame_hashes(EmptyFrameStore,
                                 [mtime |-> 0, frames |-> Media(video_id).hashes],
                                 FRAME_STRIDE_SEC, limit, VER_1, fx)
  IN  [raised |-> r.call.error # "", hashes |-> r.call.ret, avec |-> Media(video_id).avec]

\* outcomes of download_video: a path, FFMpegError, or another exception
\* (yt_dlp's DownloadError is not an FFMpegError)
DownloadOutcomes == {"ok", "FFMpegError", "DownloadError"}

\* variant: the ratio is used as a fraction without the 0.15 weight
title_boost_unweighted(ig_title, yt_title, ratio) ==
  IF ig_title = "" \/ yt_title = "" THEN 0
  ELSE ratio[<<Lower(ig_title), Lower(yt_title)>>] * (SCALE \div 100)

\* _title_boost; ratio is the fuzz.partial_ratio table, in percent
title_boost(ig_title, yt_title, ratio) ==
  IF ig_title = "" \/ yt_title = "" THEN 0
  ELSE 15 * ratio[<<Lower(ig_title), Lower(yt_title)>>] * (SCALE \div 10000)

\* variant: a 60 s (180 s) reference falls in the next tier
duration_ok_tier_lt(ig_dur, yt_dur) ==
  IF ~yt_dur.some \/ yt_dur.val = 0 THEN TRUE
  ELSE LET dd == Abs(ig_dur - yt_dur.val)
       IN  IF ig_dur < 60 THEN dd <= 8
           ELSE IF ig_dur < 180 THEN dd <= 12
           ELSE dd <= 20

\* _duration_ok; "not yt_dur" holds for None and for 0.0
duration_ok(ig_dur, yt_dur) ==
  IF ~yt_dur.some \/ yt_dur.val = 0 THEN TRUE
  ELSE LET dd == Abs(ig_dur - yt_dur.val)
       IN  IF ig_dur <= 60 THEN dd <= 8
           ELSE IF ig_dur <= 180 THEN dd <= 12
           ELSE dd <= 20

\* the fields of CandidateScore that carry scores or identify the candidate
\* (url, channel and the reason text are copies and formatting)
CandidateScore(cand, fst, a_sim, fused2, tboost) ==
  [video_id |-> cand.video_id, title |-> cand.title, yt_duration |-> cand.duration,
   frame_median |-> fst.median, frame_match_frac |-> fst.match_frac,
   frame_score |-> fst.score, audio_score |-> a_sim,
   fused_score |-> fused2, title_ratio |-> tboost]

\* score_candidate.  dl is the outcome of download_video, should it be
\* called, and fx the outcome of extract_frames on the downloaded file.
\* Yields whether download_video was called, whether an exception left the
\* function, the returned Optional[CandidateScore], whether the reference
\* frames were hashed (line 72) and whether audio_vec_from_wav was called on
\* the reference audio (line 79).
ScoreOutcome(called, raised, result, ref_hashed, ref_audio) ==
  [download_called |-> called, raised |-> raised, result |-> result,
   ref_hashed |-> ref_hashed, ref_audio |-> ref_audio]

score_candidate(reel, cand, dl, fx, ratio, hash_threshold) ==
  IF ~duration_ok(reel.duration, cand.duration)
  THEN ScoreOutcome(FALSE, FALSE, None, FALSE, FALSE)
  ELSE IF dl = "FFMpegError" THEN ScoreOutcome(TRUE, FALSE, None, FALSE, FALSE)
  ELSE IF dl # "ok" THEN ScoreOutcome(TRUE, TRUE, None, FALSE, FALSE)
  ELSE
    Bind(frame_hashes_from_dir(reel.frames, FrameLimit), LAMBDA ig :
    Bind(quick_video_fp(cand.video_id, FrameLimit, fx), LAMBDA yt :
      IF ig.raised \/ yt.raised THEN ScoreOutcome(TRUE, TRUE, None, TRUE, FALSE)
      ELSE
        LET ig_avec == reel.avec
        IN  Bind(frame_similarity_score(ig.hashes, yt.hashes, hash_threshold), LAMBDA fst :
            Bind(IF ~FalsyVec(ig_avec) /\ ~FalsyVec(yt.avec)
                 THEN audio_similarity_score(ig_avec, yt.avec) ELSE 0, LAMBDA a_sim :
              LET fused == fuse_scores(fst, a_sim).fused
                  tboost == title_boost(reel.title, cand.title, ratio)
                  fused2 == Min(SCALE, fused + tboost)
              IN  ScoreOutcome(TRUE, FALSE,
                               Some(CandidateScore(cand, fst, a_sim, fused2, tboost)),
                               TRUE, reel.avec.some)))))

\* list.sort(key=fused_score, reverse=True): stable, descending
RECURSIVE InsertDesc(_, _)
InsertDesc(x, s) == IF s = <<>> THEN <<x>>
                    ELSE IF x.fused_score > Head(s).fused_score THEN <<x>> \o s
                    ELSE <<Head(s)>> \o InsertDesc(x, Tail(s))

\* variant: the list is left as appended
Unsorted(s) == s

RECURSIVE SortDesc(_)
SortDesc(s) == IF s = <<>> THEN <<>>
               ELSE InsertDesc(s[Len(s)], SortDesc(SubSeq(s, 1, Len(s) - 1)))

\* variant: the identifier is not recorded
SeenAddNothing(seen_ids, video_id) == seen_ids

\* seen.add(video_id)
SeenAdd(seen_ids, video_id) == seen_ids \cup {video_id}

\* variant: the whole pool
Uncapped(cands, n) == cands

\* candidates[:max_eval]
Capped(cands, n) == Take(cands, n)

FusedMin == 62 * (SCALE \div 100)
MatchFracMin == 55 * (SCALE \div 100)

\* variant: the first entry of the list that passes both thresholds
RECURSIVE pick_best_first_passing(_)
pick_best_first_passing(scored_list) ==
  IF scored_list = <<>> THEN None
  ELSE LET top == scored_list[1]
       IN  IF top.fused_score >= FusedMin /\ top.frame_match_frac >= MatchFracMin
           THEN Some(top) ELSE pick_best_first_passing(Tail(scored_list))

pick_best(scored_list) ==
  IF scored_list = <<>> THEN None
  ELSE LET top == scored_list[1]
       IN  IF top.fused_score >= FusedMin /\ top.frame_match_frac >= MatchFracMin
           THEN Some(top) ELSE None

\* ------------------------------------------------------------- pipeline
\* the fields of PipelineResult the decision is reported in (ig_url, the
\* reel's title, uploader and duration, took_ms and cached are copies)
PipelineResult(ok, reason, best_dict, top) ==
  [ok |-> ok, reason |-> reason, best |-> best_dict, top |-> top]

\* _score_to_dict: the dict of the fields of a CandidateScore
score_to_dict(s) ==
  [video_id |-> s.video_id, title |-> s.title, yt_duration |-> s.yt_duration,
   frame_median |-> s.frame_median, frame_match_frac |-> s.frame_match_frac,
   frame_score |-> s.frame_score, audio_score |-> s.audio_score,
   fused_score |-> s.fused_score, title_ratio |-> s.title_ratio]

TopLen == 6
DefaultMaxEval == 12

\* the result returned when a tool is missing
missing_tools_result ==
  PipelineResult(FALSE, Some("missing tools: ffmpeg/ffprobe/yt-dlp"), None, <<>>)

\* variant: ok whenever something was scored
pipeline_result_ok_if_scored(scored_list, best_score) ==
  LET top == [k \in 1..Min(TopLen, Len(scored_list)) |-> score_to_dict(scored_list[k])]
      best_dict == IF best_score.some THEN Some(score_to_dict(best_score.val)) ELSE None
  IN  PipelineResult(scored_list # <<>>,
                     IF best_dict.some THEN None ELSE Some("no confident match"),
                     best_dict, top)

\* lines 117-131 of find_youtube_for_reel: top, best_dict and the result
pipeline_result(scored_list, best_score) ==
  LET top == [k \in 1..Min(TopLen, Len(scored_list)) |-> score_to_dict(scored_list[k])]
      best_dict == IF best_score.some THEN Some(score_to_dict(best_score.val)) ELSE None
  IN  PipelineResult(best_dict.some,
                     IF best_dict.some THEN None ELSE Some("no confident match"),
                     best_dict, top)

\* the result file of a reel URL: absent, text PipelineResult(**data) cannot
\* be built from, or a stored result
NoResultFile == [kind |-> "absent", val |-> missing_tools_result]
BadResultFile == [kind |-> "bad", val |-> missing_tools_result]
ResultFile(res) == [kind |-> "result", val |-> res]

\* ------------------------------------------------------- drawn inputs
ReelTitles == {"", "clip"}
CandTitles == {"", "Clip HD"}
Ratios == {0, 60, 100}
TitlePairs == {<<Lower(a), Lower(b)>> : a \in ReelTitles \ {""}, b \in CandTitles \ {""}}
RatioTables == [TitlePairs -> Ratios]
RankRatioTables == [TitlePairs -> {0, 100}]
ZeroRatio == [p \in TitlePairs |-> 0]

ReelInfo(duration, title, frames, avec) ==
  [duration |-> duration, title |-> title, frames |-> frames, avec |-> avec]
YTCandidate(video_id, duration, title) ==
  [video_id |-> video_id, duration |-> duration, title |-> title]

VARIABLES
  pc,            \* position of the run / which function is being applied
  hashes_a, hashes_b, threshold, fstats,  \* frame_similarity_score call
  hashes_a2, hashes_b2, fstats2,          \*   and a call on varied lists
  vec_a, vec_b, sim_ab, sim_ba,           \* audio_similarity_score calls
  frame_stats, audio_sim, audio_sim2,     \* fuse_scores calls on one
  combined, combined2,                    \*   frame_stats, two audio values
  reel,            \* the reference ReelInfo
  fuzz_ratio,      \* what fuzz.partial_ratio returns for each pair of titles
  cand, sc,        \* one score_candidate call: its candidate and its outcome
  candidates, max_eval,   \* arguments of rank_candidates
  i,               \* position of the loop in candidates[:max_eval]
  seen, out,       \* locals of rank_candidates
  evaluated,       \* positions passed to score_candidate, in order
  acquired,        \* positions for which download_video was called, in order
  scored,          \* the scores score_candidate returned, in order
  best,            \* result of pick_best
  ref_frame_runs,  \* times the reference frame directory was hashed
  ref_audio_runs,  \* times the reference chroma vector was computed
  ref_audio_stored,  \* the store holds the record of the reference audio
  ver_tag,         \* _VER, as the number n of "fp_v<n>"
  video,           \* the video file: its st_mtime_ns and its frames
  frame_store,     \* the files frames_<sig>.json, by signature
  fcall,           \* the last call of video_to_frame_hashes
  served,          \* the (mtime, stride, ver) of the calls that returned
  calls,           \* number of extractor calls made
  damaged,         \* a stored record was damaged since the last call
  wav,             \* the audio file handed to audio_vec_from_wav
  audio_store,     \* the files audio_<sig>.json, by signature
  acall,           \* the last call of an audio extractor
  pool_b,          \* the pool of the second ranking, a reordering of the first
  first_run,       \* what the first ranking returned
  request,         \* arguments and environment of find_youtube_for_reel
  result,          \* the PipelineResult it returned
  result_cache,    \* the stored result file of the reel URL
  dists,           \* nearest-neighbour distances of a frame comparison
  tboost,          \* a title bonus
  frames_dir,      \* a frame directory, its limit argument and what
  dir_limit,       \*   frame_hashes_from_dir yields for them
  dir_ret

pairVars == <<hashes_a2, hashes_b2, fstats2>>
frameVars == <<hashes_a, hashes_b, threshold, fstats, pairVars>>
audioVars == <<vec_a, vec_b, sim_ab, sim_ba>>
fuseVars == <<frame_stats, audio_sim, audio_sim2, combined, combined2>>
scoreVars == <<cand, sc>>
refVars == <<ref_frame_runs, ref_audio_runs, ref_audio_stored>>
rankVars == <<candidates, max_eval, i, seen, out, evaluated, acquired, scored, best,
              refVars>>
storeVars == <<ver_tag, video, frame_store, fcall, served, calls, damaged>>
wavVars == <<wav, audio_store, acall>>
orderVars == <<pool_b, first_run>>
pipeVars == <<request, result, result_cache>>
scenVars == <<dists, tboost, frames_dir, dir_limit, dir_ret>>
extVars == <<storeVars, wavVars, orderVars, pipeVars, scenVars>>
vars == <<pc, frameVars, audioVars, fuseVars, reel, fuzz_ratio, scoreVars, rankVars,
          extVars>>

\* values of the variables a run does not use, or has not yet computed
NoStats == FrameMatchStats(-1, -1, -1, -1, -1, -1)
NoCombined == CombinedScore(NoStats, -1, -1)
IdlePair == hashes_a2 = <<>> /\ hashes_b2 = <<>> /\ fstats2 = NoStats
IdleFrame ==
  /\ hashes_a = <<>> /\ hashes_b = <<>> /\ threshold = 0 /\ fstats = NoStats
  /\ IdlePair
IdleAudio == vec_a = None /\ vec_b = None /\ sim_ab = -1 /\ sim_ba = -1
IdleFuse ==
  /\ frame_stats = NoStats /\ audio_sim = 0 /\ audio_sim2 = 0
  /\ combined = NoCombined /\ combined2 = NoCombined
NoReel == ReelInfo(0, "", <<>>, None)
NoCand == YTCandidate("", None, "")
NoOutcome == ScoreOutcome(FALSE, FALSE, None, FALSE, FALSE)
IdleScore == cand = NoCand /\ sc = NoOutcome
IdleRef == ref_frame_runs = 0 /\ ref_audio_runs = 0 /\ ref_audio_stored = FALSE
IdleRank ==
  /\ candidates = <<>> /\ max_eval = 0 /\ i = 1 /\ seen = {} /\ out = <<>>
  /\ evaluated = <<>> /\ acquired = <<>> /\ scored = <<>> /\ best = None
  /\ IdleRef
NoVideo == [mtime |-> 0, frames |-> <<>>]
NoFrameCall == FrameCall(0, 0, 0, 0, NoFile, "", <<>>, FALSE)
IdleStore ==
  /\ ver_tag = VER_1 /\ video = NoVideo
  /\ frame_store = EmptyFrameStore /\ fcall = NoFrameCall /\ served = {}
  /\ calls = 0 /\ damaged = FALSE
NoWav == Wav(FALSE, 0, "empty")
NoAudioCall == AudioCall("", NoWav, 0, NoFile, "", None, FALSE, FALSE)
IdleWav == wav = NoWav /\ audio_store = EmptyAudioStore /\ acall = NoAudioCall
NoRun == [done |-> FALSE, out |-> <<>>, best |-> None]
IdleOrder == pool_b = <<>> /\ first_run = NoRun
NoRequest == [tools |-> FALSE, force |-> FALSE]
IdlePipe ==
  /\ request = NoRequest /\ result = missing_tools_result /\ result_cache = NoResultFile
NoDirResult == [raised |-> FALSE, hashes |-> <<>>]
IdleScen ==
  /\ dists = <<>> /\ tboost = 0
  /\ frames_dir = <<>> /\ dir_limit = 0 /\ dir_ret = NoDirResult
IdleExt == IdleStore /\ IdleWav /\ IdleOrder /\ IdlePipe /\ IdleScen
IdleMatcher ==
  /\ reel = NoReel /\ fuzz_ratio = ZeroRatio
  /\ IdleScore /\ IdleRank

\* ------------------------------------------------- frame similarity run
InitFrame ==
  /\ pc = "frame_call"
  /\ hashes_a \in SeqsUpTo(HashPool, MaxLenA)
  /\ hashes_b \in SeqsUpTo(HashPool, MaxLenB)
  /\ threshold \in Thresholds
  /\ fstats = NoStats
  /\ IdlePair
  /\ IdleAudio /\ IdleFuse /\ IdleMatcher
  /\ IdleExt

FrameScore ==
  /\ pc = "frame_call"
  /\ fstats' = frame_similarity_score(hashes_a, hashes_b, threshold)
  /\ pc' = "frame_done"
  /\ UNCHANGED <<hashes_a, hashes_b, threshold, pairVars, audioVars, fuseVars,
               reel, fuzz_ratio, scoreVars, rankVars, extVars>>

NextFrame == FrameScore

SpecFrame == InitFrame /\ [][NextFrame]_vars

\* ---------------------------- frame similarity on a pair of argument lists
MaxLenPair == 1    \* longest candidate hash list drawn before a hash is added
PairPool == {H0, H8, HF}

\* s with the entries at j and k exchanged
Swapped(s, j, k) == [s EXCEPT ![j] = s[k], ![k] = s[j]]

\* the varied arguments: a hash added to b at either end, or two entries of
\* a or of b exchanged
Variations(a, b) ==
  {<<a, Append(b, h)>> : h \in PairPool} \cup {<<a, <<h>> \o b>> : h \in PairPool}
    \cup {<<Swapped(a, jk[1], jk[2]), b>> : jk \in (DOMAIN a) \X (DOMAIN a)}
    \cup {<<a, Swapped(b, jk[1], jk[2])>> : jk \in (DOMAIN b) \X (DOMAIN b)}

InitFramePair ==
  /\ pc = "frame_pair_call"
  /\ hashes_a \in SeqsUpTo(PairPool, MaxLenA)
  /\ hashes_b \in SeqsUpTo(PairPool, MaxLenPair)
  /\ \E v \in Variations(hashes_a, hashes_b) : hashes_a2 = v[1] /\ hashes_b2 = v[2]
  /\ threshold \in Thresholds
  /\ fstats = NoStats /\ fstats2 = NoStats
  /\ IdleAudio /\ IdleFuse /\ IdleMatcher
  /\ IdleExt

\* the call on (hashes_a, hashes_b) and the call on the varied lists
FrameScorePair ==
  /\ pc = "frame_pair_call"
  /\ fstats' = frame_similarity_score(hashes_a, hashes_b, threshold)
  /\ fstats2' = frame_similarity_score(hashes_a2, hashes_b2, threshold)
  /\ pc' = "frame_pair_done"
  /\ UNCHANGED <<hashes_a, hashes_b, hashes_a2, hashes_b2, threshold, audioVars,
                 fuseVars, reel, fuzz_ratio, scoreVars, rankVars, extVars>>

NextFramePair == FrameScorePair

SpecFramePair == InitFramePair /\ [][NextFramePair]_vars

\* ------------------------------------------------- audio similarity run
InitAudio ==
  /\ pc = "audio_call"
  /\ vec_a \in OptAudioVecs
  /\ vec_b \in OptAudioVecs
  /\ sim_ab = -1 /\ sim_ba = -1
  /\ IdleFrame /\ IdleFuse /\ IdleMatcher
  /\ IdleExt

\* the call and the call with the arguments exchanged
AudioScore ==
  /\ pc = "audio_call"
  /\ sim_ab' = audio_similarity_score(vec_a, vec_b)
  /\ sim_ba' = audio_similarity_score(vec_b, vec_a)
  /\ pc' = "audio_done"
  /\ UNCHANGED <<vec_a, vec_b, frameVars, fuseVars,
               reel, fuzz_ratio, scoreVars, rankVars, extVars>>

NextAudio == AudioScore

SpecAudio == InitAudio /\ [][NextAudio]_vars

\* ------------------------------------------------------------ fusion run
InitFuse ==
  /\ pc = "fuse_call"
  /\ frame_stats \in {StatsWithScore(f) : f \in UnitGrid}
  /\ audio_sim \in UnitGrid
  /\ audio_sim2 \in UnitGrid
  /\ combined = NoCombined /\ combined2 = NoCombined
  /\ IdleFrame /\ IdleAudio /\ IdleMatcher
  /\ IdleExt

\* fuse_scores on the same frame_stats with audio_sim and with audio_sim2
Fuse ==
  /\ pc = "fuse_call"
  /\ combined' = fuse_scores(frame_stats, audio_sim)
  /\ combined2' = fuse_scores(frame_stats, audio_sim2)
  /\ pc' = "fuse_done"
  /\ UNCHANGED <<frame_stats, audio_sim, audio_sim2, frameVars, audioVars,
               reel, fuzz_ratio, scoreVars, rankVars, extVars>>

NextFuse == Fuse

SpecFuse == InitFuse /\ [][NextFuse]_vars

\* ------------------------------------------------- score_candidate run
RefFrames == <<H0, H9, HF>>
RefVec == <<1, 0>>
ScoreDurations == {0, 50, 60, 61, 180, 181}
DurationDeltas == {-21, -20, -13, -12, -9, -8, 0, 8, 9, 12, 13, 20, 21}
CandDurations(ig_dur) ==
  {None, Some(0)} \cup {Some(ig_dur + d) : d \in {e \in DurationDeltas : ig_dur + e > 0}}

InitScore ==
  /\ pc = "score_call"
  /\ \E d \in ScoreDurations, t \in ReelTitles, a \in {None, Some(RefVec)} :
       reel = ReelInfo(d, t, RefFrames, a)
  /\ fuzz_ratio \in RatioTables
  /\ \E v \in VideoIds, d \in CandDurations(reel.duration), t \in CandTitles :
       cand = YTCandidate(v, d, t)
  /\ sc = NoOutcome
  /\ IdleFrame /\ IdleAudio /\ IdleFuse /\ IdleRank
  /\ IdleExt

ScoreCandidate ==
  /\ pc = "score_call"
  /\ \E dl \in DownloadOutcomes, fx \in ExtractOutcomes :
       sc' = score_candidate(reel, cand, dl, fx, fuzz_ratio, HASH_THRESHOLD)
  /\ pc' = "score_done"
  /\ UNCHANGED <<cand, reel, fuzz_ratio, frameVars, audioVars, fuseVars, rankVars, extVars>>

NextScore == ScoreCandidate

SpecScore == InitScore /\ [][NextScore]_vars

\* ------------------------------------------- rank_candidates + pick_best
RankReels == {ReelInfo(50, "clip", RefFrames, Some(RefVec)),
              ReelInfo(50, "", RefFrames, None)}
\* search results for the four videos, with the metadata that varies
RankCands == {YTCandidate("va", None, "Clip HD"),
              YTCandidate("va", Some(59), ""),
              YTCandidate("vb", Some(58), "Clip HD"),
              YTCandidate("vd", Some(0), ""),
              YTCandidate("ve", Some(42), "Clip HD")}

Init ==
  /\ pc = "rank_loop"
  /\ reel \in RankReels
  /\ fuzz_ratio \in (IF reel.title = "" THEN {ZeroRatio} ELSE RankRatioTables)
  /\ candidates \in SeqsUpTo(RankCands, MaxPool)
  /\ max_eval \in 0..MaxPool
  /\ i = 1 /\ seen = {} /\ out = <<>>
  /\ evaluated = <<>> /\ acquired = <<>> /\ scored = <<>> /\ best = None
  /\ IdleRef
  /\ IdleFrame /\ IdleAudio /\ IdleFuse /\ IdleScore
  /\ IdleExt

InLoop == pc = "rank_loop" /\ i <= Len(Capped(candidates, max_eval))

\* loop body, c.video_id in seen: continue
RankSkipSeen ==
  /\ InLoop
  /\ Capped(candidates, max_eval)[i].video_id \in seen
  /\ i' = i + 1
  /\ UNCHANGED <<pc, seen, out, evaluated, acquired, scored, best, candidates, max_eval,
                 refVars, reel, fuzz_ratio, scoreVars, frameVars, audioVars, fuseVars,
                 extVars>>

\* loop body, c.video_id not in seen: score it and append the score, if any
RankScore ==
  /\ InLoop
  /\ LET c == Capped(candidates, max_eval)[i] IN
     /\ c.video_id \notin seen
     /\ seen' = SeenAdd(seen, c.video_id)
     /\ evaluated' = Append(evaluated, i)
     /\ \E dl \in DownloadOutcomes, fx \in ExtractOutcomes :
          \E r \in {score_candidate(reel, c, dl, fx, fuzz_ratio, HASH_THRESHOLD)} :
          /\ acquired' = IF r.download_called THEN Append(acquired, i) ELSE acquired
          /\ out' = IF r.result.some THEN Append(out, r.result.val) ELSE out
          /\ scored' = IF r.result.some THEN Append(scored, r.result.val) ELSE scored
          /\ pc' = IF r.raised THEN "rank_raised" ELSE "rank_loop"
          \* line 72 hashes the reference frames anew; line 79 computes the
          \* reference vector unless audio_vec_from_wav finds its record
          /\ ref_frame_runs' = ref_frame_runs + (IF r.ref_hashed THEN 1 ELSE 0)
          /\ ref_audio_runs' =
               ref_audio_runs + (IF r.ref_audio /\ ~ref_audio_stored THEN 1 ELSE 0)
          /\ ref_audio_stored' = (ref_audio_stored \/ r.ref_audio)
     /\ i' = i + 1
  /\ UNCHANGED <<best, candidates, max_eval, reel, fuzz_ratio, scoreVars,
                 frameVars, audioVars, fuseVars, extVars>>

\* loop exhausted: out.sort(...); return out
RankReturn ==
  /\ pc = "rank_loop" /\ i > Len(Capped(candidates, max_eval))
  /\ out' = SortDesc(out)
  /\ pc' = "ranked"
  /\ UNCHANGED <<i, seen, evaluated, acquired, scored, best, candidates, max_eval,
                 refVars, reel, fuzz_ratio, scoreVars, frameVars, audioVars, fuseVars,
                 extVars>>

\* best = pick_best(scored)
PickBest ==
  /\ pc = "ranked"
  /\ best' = pick_best(out)
  /\ pc' = "picked"
  /\ UNCHANGED <<i, seen, out, evaluated, acquired, scored, candidates, max_eval,
                 refVars, reel, fuzz_ratio, scoreVars, frameVars, audioVars, fuseVars,
                 extVars>>

Next == RankSkipSeen \/ RankScore \/ RankReturn \/ PickBest

Spec == Init /\ [][Next]_vars

\* ------------------------------- rank_candidates on a pool and a reordering
\* pools of candidates with distinct identifiers
DistinctPools ==
  {p \in SeqsUpTo(RankCands, MaxPool) :
     \A j, k \in DOMAIN p : p[j].video_id = p[k].video_id => j = k}
Reorderings(p) ==
  {q \in [DOMAIN p -> {p[k] : k \in DOMAIN p}] : \A k \in DOMAIN p : \E j \in DOMAIN q : q[j] = p[k]}

\* entry of rank_candidates: seen = set(), out = []
EnterRank ==
  /\ i' = 1 /\ seen' = {} /\ out' = <<>>
  /\ evaluated' = <<>> /\ acquired' = <<>> /\ scored' = <<>> /\ best' = None
  /\ ref_frame_runs' = 0 /\ ref_audio_runs' = 0 /\ ref_audio_stored' = FALSE

InitOrder ==
  /\ pc = "rank_loop"
  /\ reel \in RankReels
  /\ fuzz_ratio \in (IF reel.title = "" THEN {ZeroRatio} ELSE RankRatioTables)
  /\ candidates \in DistinctPools
  /\ pool_b \in Reorderings(candidates)
  /\ max_eval = MaxPool
  /\ first_run = NoRun
  /\ i = 1 /\ seen = {} /\ out = <<>>
  /\ evaluated = <<>> /\ acquired = <<>> /\ scored = <<>> /\ best = None
  /\ IdleRef
  /\ IdleFrame /\ IdleAudio /\ IdleFuse /\ IdleScore
  /\ IdleStore /\ IdleWav /\ IdlePipe /\ IdleScen

\* the first ranking and decision are kept and the reordered pool is ranked
RankReordered ==
  /\ pc = "picked" /\ ~first_run.done
  /\ first_run' = [done |-> TRUE, out |-> out, best |-> best]
  /\ candidates' = pool_b
  /\ EnterRank
  /\ pc' = "rank_loop"
  /\ UNCHANGED <<max_eval, pool_b, reel, fuzz_ratio, scoreVars, frameVars, audioVars,
                 fuseVars, storeVars, wavVars, pipeVars, scenVars>>

NextOrder == RankScore \/ RankReturn \/ PickBest \/ RankReordered

SpecOrder == InitOrder /\ [][NextOrder]_vars

\* --------------------- rank_candidates on a pool and on the pool deduplicated
\* the pool with every later occurrence of an identifier removed
RECURSIVE Deduped(_)
Deduped(p) ==
  IF p = <<>> THEN <<>>
  ELSE LET front == SubSeq(p, 1, Len(p) - 1)
           last == p[Len(p)]
       IN  IF \E k \in DOMAIN front : front[k].video_id = last.video_id
           THEN Deduped(front)
           ELSE Append(Deduped(front), last)

Ids(p) == {p[k].video_id : k \in DOMAIN p}

\* search results for three videos, one of them found twice
DedupCands == {c \in RankCands : c.video_id # "ve"}

\* the pool of the second ranking: the whole pool deduplicated, or its first
\* max_eval entries deduplicated
InitDedup ==
  /\ pc = "rank_loop"
  /\ reel \in RankReels
  /\ fuzz_ratio \in (IF reel.title = "" THEN {ZeroRatio} ELSE RankRatioTables)
  /\ candidates \in SeqsUpTo(DedupCands, MaxPool)
  /\ max_eval \in 0..MaxPool
  /\ pool_b \in {Deduped(candidates), Deduped(Capped(candidates, max_eval))}
  /\ first_run = NoRun
  /\ i = 1 /\ seen = {} /\ out = <<>>
  /\ evaluated = <<>> /\ acquired = <<>> /\ scored = <<>> /\ best = None
  /\ IdleRef
  /\ IdleFrame /\ IdleAudio /\ IdleFuse /\ IdleScore
  /\ IdleStore /\ IdleWav /\ IdlePipe /\ IdleScen

\* the first ranking and decision are kept, with whether every acquired
\* candidate was scored, and the deduplicated pool is ranked; pool_b keeps
\* the pool of the first ranking
RankDeduped ==
  /\ pc = "picked" /\ ~first_run.done
  /\ first_run' = [done |-> TRUE, out |-> out, best |-> best,
                   clean |-> Len(out) = Len(acquired)]
  /\ candidates' = pool_b
  /\ pool_b' = candidates
  /\ EnterRank
  /\ pc' = "rank_loop"
  /\ UNCHANGED <<max_eval, reel, fuzz_ratio, scoreVars, frameVars, audioVars,
                 fuseVars, storeVars, wavVars, pipeVars, scenVars>>

NextDedup == RankSkipSeen \/ RankScore \/ RankReturn \/ PickBest \/ RankDeduped

SpecDedup == InitDedup /\ [][NextDedup]_vars

\* ------------------------------------------------ find_youtube_for_reel
\* what the search returns for the reel: for the titled reel nothing, or
\* an exact copy (found twice) and a partial one; for the untitled reel
\* nothing, or seven videos that share a single frame with it
SearchResults(r) ==
  IF r.title # ""
  THEN {<<>>,
        <<YTCandidate("vb", Some(58), "Clip HD"), YTCandidate("va", None, "Clip HD"),
          YTCandidate("va", Some(59), "")>>}
  ELSE {<<>>,
        <<YTCandidate("vb", None, ""), YTCandidate("vf", None, ""),
          YTCandidate("vg", None, ""), YTCandidate("vh", None, ""),
          YTCandidate("vi", None, ""), YTCandidate("vj", None, ""),
          YTCandidate("vk", None, "")>>}

PipeReturned == pc \in {"pipe_missing_tools", "pipe_cached", "pipe_computed"}

InitPipeline ==
  /\ pc = "pipe_call"
  /\ request \in [tools : BOOLEAN, force : BOOLEAN]
  /\ result = missing_tools_result
  /\ result_cache \in {NoResultFile, BadResultFile}
  /\ reel \in RankReels
  /\ fuzz_ratio \in (IF reel.title = "" THEN {ZeroRatio} ELSE RankRatioTables)
  /\ candidates \in SearchResults(reel)
  /\ max_eval \in {MaxPool, DefaultMaxEval}
  /\ i = 1 /\ seen = {} /\ out = <<>>
  /\ evaluated = <<>> /\ acquired = <<>> /\ scored = <<>> /\ best = None
  /\ IdleRef
  /\ IdleFrame /\ IdleAudio /\ IdleFuse /\ IdleScore
  /\ IdleStore /\ IdleWav /\ IdleOrder /\ IdleScen

\* lines 73-110: the tool check, the stored result, else reel, search and
\* the call of rank_candidates
PipelineEnter ==
  /\ pc = "pipe_call"
  /\ IF ~request.tools
     THEN result' = missing_tools_result /\ pc' = "pipe_missing_tools"
     ELSE IF result_cache.kind = "result" /\ ~request.force
     THEN result' = result_cache.val /\ pc' = "pipe_cached"
     ELSE result' = result /\ pc' = "rank_loop"
  /\ UNCHANGED <<request, result_cache, rankVars, reel, fuzz_ratio, scoreVars, frameVars,
                 audioVars, fuseVars, storeVars, wavVars, orderVars, scenVars>>

\* lines 117-139: the result is built, written (a failed write is ignored)
\* and returned
PipelineReturn ==
  /\ pc = "picked"
  /\ result' = pipeline_result(out, best)
  /\ \E written \in BOOLEAN :
       result_cache' = IF written THEN ResultFile(result') ELSE result_cache
  /\ pc' = "pipe_computed"
  /\ UNCHANGED <<request, rankVars, reel, fuzz_ratio, scoreVars, frameVars, audioVars,
                 fuseVars, storeVars, wavVars, orderVars, scenVars>>

\* the caller asks again for the same reel; the locals of the last call are gone
PipelineCallAgain ==
  /\ PipeReturned
  /\ \E f \in BOOLEAN : request' = [request EXCEPT !.force = f]
  /\ result' = missing_tools_result
  /\ EnterRank
  /\ pc' = "pipe_call"
  /\ UNCHANGED <<result_cache, candidates, max_eval, reel, fuzz_ratio, scoreVars,
                 frameVars, audioVars, fuseVars, storeVars, wavVars, orderVars, scenVars>>

NextPipeline ==
  \/ PipelineEnter \/ RankSkipSeen \/ RankScore \/ RankReturn \/ PickBest
  \/ PipelineReturn \/ PipelineCallAgain

SpecPipeline == InitPipeline /\ [][NextPipeline]_vars

\* ------------------------------------------- scoring from given distances
ScenFrames == 20     \* reference frames compared in a scoring scenario

\* k distances of near followed by distances of far
DistsOf(k, near, far) == [j \in 1..ScenFrames |-> IF j <= k THEN near ELSE far]

Pct(n) == n * (SCALE \div 100)

InitScenario ==
  /\ pc = "scen_call"
  /\ \E k \in 0..ScenFrames, near \in {0, 3, HASH_THRESHOLD}, far \in {9, 20, 50} :
       dists = DistsOf(k, near, far)
  /\ audio_sim \in {0, Pct(40), Pct(80), SCALE}
  /\ tboost \in {0, Pct(10), Pct(15)}
  /\ cand = YTCandidate("va", None, "Clip HD")
  /\ fstats = NoStats /\ combined = NoCombined
  /\ out = <<>> /\ best = None
  /\ hashes_a = <<>> /\ hashes_b = <<>> /\ threshold = HASH_THRESHOLD
  /\ IdlePair
  /\ IdleAudio
  /\ frame_stats = NoStats /\ audio_sim2 = 0 /\ combined2 = NoCombined
  /\ reel = NoReel /\ fuzz_ratio = ZeroRatio /\ sc = NoOutcome
  /\ candidates = <<>> /\ max_eval = 0 /\ i = 1 /\ seen = {}
  /\ evaluated = <<>> /\ acquired = <<>> /\ scored = <<>>
  /\ IdleRef
  /\ IdleStore /\ IdleWav /\ IdleOrder /\ IdlePipe
  /\ frames_dir = <<>> /\ dir_limit = 0 /\ dir_ret = NoDirResult

\* fingerprint.py lines 142-151 on dists, then matcher.py lines 82-100: the
\* fusion, the title bonus, the final score; the candidate is the whole list
ScenarioScore ==
  /\ pc = "scen_call"
  /\ fstats' = stats_of_dists(dists, threshold)
  /\ combined' = fuse_scores(fstats', audio_sim)
  /\ out' = <<CandidateScore(cand, fstats', audio_sim,
                             Min(SCALE, combined'.fused + tboost), tboost)>>
  /\ pc' = "scen_scored"
  /\ UNCHANGED <<dists, tboost, frames_dir, dir_limit, dir_ret, audio_sim, cand, best,
                 hashes_a, hashes_b, threshold, pairVars, audioVars, frame_stats, audio_sim2,
                 combined2, reel, fuzz_ratio, sc, candidates, max_eval, i, seen, evaluated,
                 acquired, scored, refVars, storeVars, wavVars, orderVars, pipeVars>>

\* pick_best on the list
ScenarioPick ==
  /\ pc = "scen_scored"
  /\ best' = pick_best(out)
  /\ pc' = "scen_picked"
  /\ UNCHANGED <<dists, tboost, frames_dir, dir_limit, dir_ret, audio_sim, cand, out,
                 fstats, combined,
                 hashes_a, hashes_b, threshold, pairVars, audioVars, frame_stats, audio_sim2,
                 combined2, reel, fuzz_ratio, sc, candidates, max_eval, i, seen, evaluated,
                 acquired, scored, refVars, storeVars, wavVars, orderVars, pipeVars>>

NextScenario == ScenarioScore \/ ScenarioPick

SpecScenario == InitScenario /\ [][NextScenario]_vars

\* ------------------------------------------- video_to_frame_hashes runs
\* what the video file may hold: no frame, two frames, or a frame that
\* cannot be decoded after a good one
VideoContents == {<<>>, <<H0, H9>>, <<H8, BadFrame>>}

\* a damaged record: text that is not JSON, a JSON list, or an object that
\* lost its payload field
Malformed(sig) == {Garbage, JsonList, JsonDict(Some(sig.ver), None)}

CallKey(c) == [mtime |-> c.mtime, stride |-> c.stride, ver |-> c.ver]

InitFrameStore ==
  /\ pc = "store"
  /\ ver_tag = VER_1
  /\ \E fr \in VideoContents : video = [mtime |-> 0, frames |-> fr]
  /\ frame_store = EmptyFrameStore
  /\ fcall = NoFrameCall /\ served = {} /\ calls = 0 /\ damaged = FALSE
  /\ IdleFrame /\ IdleAudio /\ IdleFuse /\ IdleMatcher
  /\ IdleWav /\ IdleOrder /\ IdlePipe /\ IdleScen

\* a call with some stride and limit; ffmpeg succeeds or fails
VideoToFrameHashes ==
  /\ pc = "store" /\ calls < MaxCalls
  /\ \E stride_sec \in Strides, limit \in Limits, fx \in ExtractOutcomes :
       \E r \in {video_to_frame_hashes(frame_store, video, stride_sec, limit,
                                       ver_tag, fx)} :
         /\ fcall' = r.call
         /\ frame_store' = r.store
         /\ served' = IF r.call.error = "" THEN served \cup {CallKey(r.call)} ELSE served
  /\ calls' = calls + 1
  /\ damaged' = FALSE
  /\ UNCHANGED <<pc, ver_tag, video, frameVars, audioVars, fuseVars, reel,
                 fuzz_ratio, scoreVars, rankVars, wavVars, orderVars, pipeVars, scenVars>>

\* the content a rewrite of the file puts in place of fr
Rewritten(fr) ==
  CASE fr = <<>> -> <<H0, H9>>
    [] fr = <<H0, H9>> -> <<H8, BadFrame>>
    [] OTHER -> <<>>

\* the video file is rewritten: new st_mtime_ns, new content
ModifyVideo ==
  /\ pc = "store" /\ video.mtime < MaxMtime
  /\ video' = [mtime |-> video.mtime + 1, frames |-> Rewritten(video.frames)]
  /\ UNCHANGED <<pc, ver_tag, frame_store, fcall, served, calls, damaged, frameVars,
                 audioVars, fuseVars, reel, fuzz_ratio, scoreVars, rankVars, wavVars,
                 orderVars, pipeVars, scenVars>>

\* a release with _VER bumped
BumpVersion ==
  /\ pc \in {"store", "audio_store"} /\ ver_tag < MaxVer
  /\ ver_tag' = ver_tag + 1
  /\ UNCHANGED <<pc, video, frame_store, fcall, served, calls, damaged, frameVars,
                 audioVars, fuseVars, reel, fuzz_ratio, scoreVars, rankVars, wavVars,
                 orderVars, pipeVars, scenVars>>

\* the frames_<sig>.json the last call left or used is damaged from outside
DamageFrameRecord ==
  /\ pc = "store" /\ calls > 0 /\ ~damaged
  /\ LET sig == video_sig(fcall.mtime, fcall.stride, fcall.ver) IN
       /\ frame_store[sig].kind # "absent"
       /\ \E m \in Malformed(sig) : frame_store' = [frame_store EXCEPT ![sig] = m]
  /\ damaged' = TRUE
  /\ UNCHANGED <<pc, ver_tag, video, fcall, served, calls, frameVars, audioVars,
                 fuseVars, reel, fuzz_ratio, scoreVars, rankVars, wavVars, orderVars,
                 pipeVars, scenVars>>

NextFrameStore == VideoToFrameHashes \/ ModifyVideo \/ BumpVersion \/ DamageFrameRecord

SpecFrameStore == InitFrameStore /\ [][NextFrameStore]_vars

\* ----------------------------------------------- audio extractor runs
InitAudioStore ==
  /\ pc = "audio_store"
  /\ ver_tag = VER_1
  /\ \E e \in BOOLEAN, sg \in Signals : wav = Wav(e, 0, sg)
  /\ audio_store = EmptyAudioStore
  /\ acall = NoAudioCall /\ calls = 0 /\ damaged = FALSE
  /\ video = NoVideo /\ frame_store = EmptyFrameStore /\ fcall = NoFrameCall
  /\ served = {}
  /\ IdleFrame /\ IdleAudio /\ IdleFuse /\ IdleMatcher
  /\ IdleOrder /\ IdlePipe /\ IdleScen

\* audio_vec_from_wav on the wav as it stands
AudioVecFromWav ==
  /\ pc = "audio_store" /\ calls < MaxCalls
  /\ \E r \in {audio_vec_from_wav(audio_store, wav, ver_tag)} :
       /\ acall' = r.call
       /\ audio_store' = r.store
  /\ calls' = calls + 1
  /\ damaged' = FALSE
  /\ UNCHANGED <<pc, wav, ver_tag, video, frame_store, fcall, served, frameVars,
                 audioVars, fuseVars, reel, fuzz_ratio, scoreVars, rankVars, orderVars,
                 pipeVars, scenVars>>

\* prepare_audio_vec_for_video on the video whose tmp wav is wav
PrepareAudioVecForVideo ==
  /\ pc = "audio_store" /\ calls < MaxCalls
  /\ \E ax \in ExtractOutcomes :
       /\ ax = "ok" => Extracted(wav).mtime <= MaxMtime
       /\ \E r \in {prepare_audio_vec_for_video(audio_store, wav, ver_tag, ax)} :
            /\ acall' = r.call
            /\ audio_store' = r.store
            /\ wav' = r.wav
  /\ calls' = calls + 1
  /\ damaged' = FALSE
  /\ UNCHANGED <<pc, ver_tag, video, frame_store, fcall, served, frameVars, audioVars,
                 fuseVars, reel, fuzz_ratio, scoreVars, rankVars, orderVars, pipeVars,
                 scenVars>>

\* the audio_<sig>.json of the wav as it stands is damaged from outside
DamageAudioRecord ==
  /\ pc = "audio_store" /\ wav.exists /\ ~damaged
  /\ LET sig == video_sig(wav.mtime, 0, ver_tag) IN
       /\ audio_store[sig].kind # "absent"
       /\ \E m \in Malformed(sig) : audio_store' = [audio_store EXCEPT ![sig] = m]
  /\ damaged' = TRUE
  /\ UNCHANGED <<pc, wav, acall, calls, ver_tag, video, frame_store, fcall, served,
                 frameVars, audioVars, fuseVars, reel, fuzz_ratio, scoreVars, rankVars,
                 orderVars, pipeVars, scenVars>>

NextAudioStore ==
  AudioVecFromWav \/ PrepareAudioVecForVideo \/ DamageAudioRecord \/ BumpVersion

SpecAudioStore == InitAudioStore /\ [][NextAudioStore]_vars

\* ------------------------------------------- frame_hashes_from_dir runs
DirImages == {H0, H8, BadFrame}
DirLimits == {0, 1, 2, FrameLimit}

InitFrameDir ==
  /\ pc = "dir_call"
  /\ frames_dir \in SeqsUpTo(DirImages, MaxLenA)
  /\ dir_limit \in DirLimits
  /\ dir_ret = NoDirResult
  /\ dists = <<>> /\ tboost = 0
  /\ IdleFrame /\ IdleAudio /\ IdleFuse /\ IdleMatcher
  /\ IdleStore /\ IdleWav /\ IdleOrder /\ IdlePipe

HashFramesDir ==
  /\ pc = "dir_call"
  /\ dir_ret' = frame_hashes_from_dir(frames_dir, dir_limit)
  /\ pc' = "dir_done"
  /\ UNCHANGED <<frames_dir, dir_limit, dists, tboost, frameVars, audioVars, fuseVars,
                 reel, fuzz_ratio, scoreVars, rankVars, storeVars, wavVars, orderVars,
                 pipeVars>>

NextFrameDir == HashFramesDir

SpecFrameDir == InitFrameDir /\ [][NextFrameDir]_vars

\* ======================================================== properties
Passes(e) == e.fused_score >= FusedMin /\ e.frame_match_frac >= MatchFracMin
Returned == pc \in {"ranked", "picked"}
CapLen == Min(max_eval, Len(candidates))

\* C1: pick_best returns the first entry of the ranked list if and only if
\* that entry has fused score >= 0.62 and match fraction >= 0.55; otherwise,
\* the empty list included, it returns no match, and never a lower entry.
C1_PickBestTopOnly ==
  pc = "picked" =>
    IF out # <<>> /\ Passes(out[1])
    THEN best.some /\ best.val = out[1]
    ELSE ~best.some

\* a ranked list whose top entry fails while a lower entry passes both tests
C1_Witness ==
  /\ pc = "picked" /\ Len(out) >= 2
  /\ ~Passes(out[1]) /\ out[1].fused_score >= FusedMin
  /\ \E k \in 2..Len(out) : Passes(out[k])
  /\ ~best.some

\* C5: each identifier is evaluated and acquired at most once, the evaluated
\* occurrence is the first one of the pool, and the list never holds two
\* entries with the same video_id.
C5_NoDuplicates ==
  /\ \A j, k \in DOMAIN evaluated :
       j # k => candidates[evaluated[j]].video_id # candidates[evaluated[k]].video_id
  /\ \A j \in DOMAIN evaluated : \A m \in 1..(evaluated[j] - 1) :
       candidates[m].video_id # candidates[evaluated[j]].video_id
  /\ \A j, k \in DOMAIN acquired :
       j # k => candidates[acquired[j]].video_id # candidates[acquired[k]].video_id
  /\ \A j, k \in DOMAIN out : j # k => out[j].video_id # out[k].video_id

\* a returned ranking of a pool that lists one identifier twice, with
\* different metadata, inside the cap
C5_Witness ==
  /\ pc = "ranked" /\ out # <<>>
  /\ \E j, k \in 1..CapLen :
       /\ j < k /\ candidates[j].video_id = candidates[k].video_id
       /\ candidates[j] # candidates[k]
       /\ \E e \in DOMAIN out : out[e].video_id = candidates[j].video_id

\* C6: at most max_eval candidates are evaluated or acquired, none of them
\* positioned beyond the cap, and every entry of the result is the score of
\* a candidate positioned inside the cap.
C6_EvaluationCap ==
  /\ Len(evaluated) <= max_eval /\ Len(acquired) <= max_eval /\ Len(out) <= max_eval
  /\ \A j \in DOMAIN evaluated : evaluated[j] <= max_eval
  /\ \A j \in DOMAIN acquired : acquired[j] <= max_eval
  /\ \A e \in DOMAIN out : \E j \in DOMAIN evaluated :
       /\ evaluated[j] <= max_eval
       /\ candidates[evaluated[j]].video_id = out[e].video_id
       /\ candidates[evaluated[j]].title = out[e].title
       /\ candidates[evaluated[j]].duration = out[e].yt_duration

\* a returned ranking that used the whole cap although earlier candidates
\* were rejected or failed, with an unseen candidate left beyond the cap
C6_Witness ==
  /\ pc = "ranked" /\ max_eval >= 1 /\ Len(candidates) > max_eval
  /\ Len(evaluated) = max_eval /\ Len(out) < max_eval
  /\ \A m \in 1..max_eval : candidates[m].video_id # candidates[max_eval + 1].video_id

\* C7: the returned list is in non-increasing order of fused_score and holds
\* exactly the scores score_candidate produced, each once.
SameEntries(s, t) ==
  /\ Len(s) = Len(t)
  /\ \A x \in {s[k] : k \in DOMAIN s} \cup {t[k] : k \in DOMAIN t} :
       Cardinality({k \in DOMAIN s : s[k] = x}) = Cardinality({k \in DOMAIN t : t[k] = x})

C7_SortedPermutation ==
  Returned =>
    /\ \A k \in 1..(Len(out) - 1) : out[k].fused_score >= out[k + 1].fused_score
    /\ SameEntries(out, scored)

\* a returned list that the sort reordered
C7_Witness ==
  /\ pc = "ranked" /\ Len(out) >= 2 /\ out # scored
  /\ out[1].fused_score > out[Len(out)].fused_score

\* C8: the recorded score is min(1.0, fused + bonus) with the bonus in
\* [0, 0.15] and 0 when either title is empty, so it lies in [0,1] and is
\* not below the pre-bonus fused score; acceptance tests this bonus-inclusive
\* score, and the match fraction is the one of the frame comparison.
PreBonus(e) ==
  IF e.audio_score > 0 THEN (7 * e.frame_score + 3 * e.audio_score) \div 10
  ELSE e.frame_score

C8_TitleBonus ==
  /\ \A k \in DOMAIN out :
       LET e == out[k] IN
       /\ 0 <= e.title_ratio /\ e.title_ratio <= 15 * (SCALE \div 100)
       /\ (reel.title = "" \/ e.title = "") => e.title_ratio = 0
       /\ e.fused_score = Min(SCALE, PreBonus(e) + e.title_ratio)
       /\ 0 <= e.fused_score /\ e.fused_score <= SCALE
       /\ e.fused_score >= PreBonus(e)
  /\ Returned =>
       \A k \in 1..(Len(out) - 1) :
         PreBonus(out[k]) + out[k].title_ratio >= PreBonus(out[k + 1]) + out[k + 1].title_ratio
           \/ out[k].fused_score = SCALE
  /\ (pc = "picked" /\ out # <<>>) =>
       \E mf \in {frame_similarity_score(reel.frames, Media(out[1].video_id).hashes,
                                         HASH_THRESHOLD).match_frac} :
         /\ out[1].frame_match_frac = mf
         /\ best.some <=> (Min(SCALE, PreBonus(out[1]) + out[1].title_ratio) >= FusedMin
                           /\ mf >= MatchFracMin)

\* an accepted match whose pre-bonus fused score is below 0.62
C8_Witness ==
  /\ pc = "picked" /\ best.some
  /\ best.val.title_ratio > 0
  /\ PreBonus(best.val) < FusedMin

\* ------------------------------------------------------------ fusion
\* C2: audio never subtracts from a visual match: the fused score is never
\* below the frame score, whatever the audio similarity.
C2_AudioNeverSubtracts ==
  pc = "fuse_done" => combined.fused >= frame_stats.score

\* C2 as amended: absent or zero audio leaves the frame score unchanged and
\* a positive audio similarity a gives fused >= f exactly when a >= f; a
\* positive a below f lowers the score, to a value strictly between a and f.
C2_AudioSubtractsOnlyBelowFrame ==
  pc = "fuse_done" =>
    LET f == frame_stats.score
        a == audio_sim
    IN  /\ a = 0 => combined.fused = f
        /\ (a > 0 /\ a >= f) => combined.fused >= f
        /\ (a > 0 /\ a < f) => (combined.fused < f /\ combined.fused > a)

\* a frame score that passes 0.62 alone and fails it with weak audio present
C2_Witness ==
  /\ pc = "fuse_done"
  /\ audio_sim > 0 /\ audio_sim < frame_stats.score
  /\ frame_stats.score >= FusedMin /\ combined.fused < FusedMin

\* C9: for a > 0 fused = 0.7*f + 0.3*a, strictly increasing in a; for a = 0
\* fused = f; fused lies in [0,1].
C9_FusionFormula ==
  pc = "fuse_done" =>
    LET f == frame_stats.score IN
    /\ audio_sim > 0 =>
         /\ 10 * combined.fused <= 7 * f + 3 * audio_sim
         /\ 7 * f + 3 * audio_sim < 10 * combined.fused + 10
    /\ (0 < audio_sim /\ audio_sim < audio_sim2) => combined.fused < combined2.fused
    /\ audio_sim = 0 => combined.fused = f
    /\ 0 <= combined.fused /\ combined.fused <= SCALE

\* two positive audio similarities fused with the same frame score
C9_Witness ==
  /\ pc = "fuse_done"
  /\ 0 < audio_sim /\ audio_sim < audio_sim2
  /\ 0 < frame_stats.score /\ frame_stats.score < SCALE
  /\ combined.fused < combined2.fused

\* --------------------------------------------------- frame similarity
\* reference definition, by counting
DigitBit(d, b) == (d \div (2 ^ b)) % 2
RefHamming(x, y) ==
  Cardinality({p \in (1..HexLen) \X (0..3) : DigitBit(x[p[1]], p[2]) # DigitBit(y[p[1]], p[2])})
RefNearest(x, bs) ==
  Bind({RefHamming(x, bs[j]) : j \in DOMAIN bs}, LAMBDA D :
    CHOOSE d \in D : \A e \in D : d <= e)
\* the k-th smallest element of ds
RefKth(ds, k) ==
  CHOOSE x \in {ds[n] : n \in DOMAIN ds} :
    /\ Cardinality({n \in DOMAIN ds : ds[n] < x}) < k
    /\ Cardinality({n \in DOMAIN ds : ds[n] <= x}) >= k
\* twice the median of ds
RefMedian2(ds) == RefKth(ds, (Len(ds) + 1) \div 2) + RefKth(ds, (Len(ds) + 2) \div 2)

\* C3: frame_similarity_score equals the reference definition: worst stats
\* when a list is empty; otherwise nearest-neighbour distances, match_frac the
\* share of them <= t, score = 0.6*match_frac + 0.4*max(0, 1 - median/64);
\* the score lies in [0,1]; equal non-empty lists give median 0,
\* match_frac 1, score 1.
C3_FrameSimilarityReference ==
  pc = "frame_done" =>
    /\ (hashes_a = <<>> \/ hashes_b = <<>>) =>
         fstats = FrameMatchStats(64 * SCALE, 64 * SCALE, 64 * SCALE, 64 * SCALE, 0, 0)
    /\ (hashes_a # <<>> /\ hashes_b # <<>>) =>
         \E ds \in {[n \in DOMAIN hashes_a |-> RefNearest(hashes_a[n], hashes_b)]} :
         \E cnt \in {Cardinality({n \in DOMAIN ds : ds[n] <= threshold})} :
         \E med2 \in {RefMedian2(ds)} :
             /\ 2 * fstats.median = med2 * SCALE
             /\ fstats.match_frac = (cnt * SCALE) \div Len(hashes_a)
             /\ fstats.score =
                  (6 * ((cnt * SCALE) \div Len(hashes_a))
                     + 4 * Max(0, SCALE - (med2 * SCALE) \div 128)) \div 10
    /\ 0 <= fstats.score /\ fstats.score <= SCALE
    /\ (hashes_a = hashes_b /\ hashes_a # <<>>) =>
         (fstats.median = 0 /\ fstats.match_frac = SCALE /\ fstats.score = SCALE)

\* a comparison in which the nearest neighbour of a frame is not the frame
\* at the same position, with a distance equal to the threshold
C3_Witness ==
  /\ pc = "frame_done"
  /\ Len(hashes_a) = 3 /\ Len(hashes_b) = 2
  /\ hashes_a[1] # hashes_b[1] /\ hashes_a[1] = hashes_b[2]
  /\ hashes_a[2] = H8 /\ H0 \in {hashes_b[1], hashes_b[2]} /\ threshold = HASH_THRESHOLD
  /\ 0 < fstats.match_frac /\ fstats.match_frac < SCALE

\* --------------------------------------------------- audio similarity
ZeroVec(v) == \A k \in DOMAIN v : v[k] = 0

\* C10: audio_similarity_score is symmetric, lies in [0,1] (a negative cosine
\* gives 0) and is 0 when a side is absent or has zero norm.
C10_AudioSymmetricBounded ==
  pc = "audio_done" =>
    /\ sim_ab = sim_ba
    /\ 0 <= sim_ab /\ sim_ab <= SCALE
    /\ (FalsyVec(vec_a) \/ FalsyVec(vec_b)) => sim_ab = 0
    /\ (~FalsyVec(vec_a) /\ ~FalsyVec(vec_b)) =>
         /\ (ZeroVec(vec_a.val) \/ ZeroVec(vec_b.val)) => sim_ab = 0
         /\ dot(vec_a.val, vec_b.val) < 0 => sim_ab = 0
         /\ dot(vec_a.val, vec_b.val) > 0 => sim_ab > 0

\* two different vectors of different norms with a similarity inside (0,1)
C10_Witness ==
  /\ pc = "audio_done"
  /\ ~FalsyVec(vec_a) /\ ~FalsyVec(vec_b)
  /\ dot(vec_a.val, vec_a.val) # dot(vec_b.val, vec_b.val)
  /\ 0 < sim_ab /\ sim_ab < SCALE

\* ------------------------------------------------------ duration gate
Tolerance(ig_dur) == IF ig_dur <= 60 THEN 8 ELSE IF ig_dur <= 180 THEN 12 ELSE 20
\* score_candidate returned None without calling download_video
GateRejected == ~sc.download_called /\ ~sc.raised /\ ~sc.result.some

\* C4: score_candidate rejects a candidate before acquiring its media
\* exactly when its duration is known and differs from the reference by more
\* than the tolerance of the reference's tier.
C4_DurationGateKnown ==
  pc = "score_done" =>
    (GateRejected <=>
       (cand.duration.some
        /\ Abs(reel.duration - cand.duration.val) > Tolerance(reel.duration)))

\* C4 as amended: the gate rejects exactly when the duration is known, is
\* not zero, and differs by more than the tolerance; an unknown or zero
\* duration always passes; reference 50 s / candidate 59 s is rejected.
C4_DurationGateNonZero ==
  pc = "score_done" =>
    /\ GateRejected <=>
         (cand.duration.some /\ cand.duration.val # 0
          /\ Abs(reel.duration - cand.duration.val) > Tolerance(reel.duration))
    /\ (~cand.duration.some \/ cand.duration.val = 0) => sc.download_called
    /\ (reel.duration = 50 /\ cand.duration.some /\ cand.duration.val = 59) => GateRejected

\* a candidate one second beyond the tolerance, rejected without download
C4_Witness ==
  /\ pc = "score_done"
  /\ cand.duration.some
  /\ cand.duration.val = reel.duration + Tolerance(reel.duration) + 1
  /\ reel.duration \in {60, 180}
  /\ GateRejected

\* ---------------------------------------------------- fingerprint store
\* the file a call leaves under its signature
FileAfter(c) ==
  IF c.extracted /\ c.error = "" THEN JsonDict(Some(c.ver), Some(c.ret)) ELSE c.found

\* C11: for an unchanged video file, stride and version tag, a second
\* video_to_frame_hashes call returns exactly the list the first call
\* returned and left in the store, the empty list included, and runs neither
\* frame extraction nor hashing.
C11_CacheHit ==
  [][(/\ calls' = calls + 1 /\ calls > 0
      /\ fcall.error = ""
      /\ CallKey(fcall') = CallKey(fcall)
      /\ fcall'.found = FileAfter(fcall))
     => (fcall'.error = "" /\ fcall'.ret = fcall.ret /\ ~fcall'.extracted)]_vars

\* a call served from a stored record whose list is empty
C11_Witness ==
  /\ calls >= 2 /\ fcall.error = "" /\ ~fcall.extracted
  /\ fcall.found = JsonDict(Some(fcall.ver), Some(<<>>))
  /\ fcall.ret = <<>>

\* a record as video_to_frame_hashes writes it under signature sig
IsCurrent(file, sig) ==
  file.kind = "dict" /\ file.ver = Some(sig.ver) /\ file.payload.some

\* C12: the first request under a modification time, stride or version tag
\* that no stored record was made under recomputes and stores a fresh record,
\* the earlier records staying in the store; a request under the parameters
\* of an undamaged stored record never recomputes, and no step of the program
\* changes or removes such a record.
C12_CacheInvalidation ==
  [][/\ (calls' = calls + 1 /\ CallKey(fcall') \notin served) =>
          /\ fcall'.extracted
          /\ fcall'.error = "" =>
               LET k == CallKey(fcall')
                   sig == video_sig(k.mtime, k.stride, k.ver)
               IN  /\ frame_store'[sig] = JsonDict(Some(ver_tag), Some(fcall'.ret))
                   /\ frame_store[sig] = NoFile
                   /\ \A other \in FrameSigs \ {sig} :
                        frame_store'[other] = frame_store[other]
     /\ (calls' = calls + 1 /\ CallKey(fcall') \in served
           /\ IsCurrent(fcall'.found, CallKey(fcall'))) =>
          (~fcall'.extracted /\ frame_store' = frame_store)
     /\ ~damaged' =>
          \A sig \in FrameSigs :
            IsCurrent(frame_store[sig], sig) => frame_store'[sig] = frame_store[sig]]_vars

\* a record made after the file was modified, the version tag bumped and
\* the stride changed, with the record made before still stored
C12_Witness ==
  /\ Cardinality(served) = 2 /\ ~damaged
  /\ \E k1, k2 \in served : k1.ver # k2.ver /\ k1.mtime # k2.mtime /\ k1.stride # k2.stride
  /\ \A k \in served :
       IsCurrent(frame_store[video_sig(k.mtime, k.stride, k.ver)], k)
  /\ fcall.extracted /\ fcall.error = ""

\* the file found by the last call is damaged
FoundMalformed(c) ==
  \/ c.found.kind \in {"garbage", "list"}
  \/ c.found.kind = "dict" /\ ~c.found.payload.some

\* C13: a stored record that is unreadable or malformed (not JSON, a JSON
\* list, an object without its payload) is a miss: the call recomputes and
\* never raises because of the stored content.
C13_CorruptionIsMiss ==
  (calls > 0 /\ FoundMalformed(fcall)) =>
    (fcall.extracted /\ fcall.error # "AttributeError")

\* C16: audio_vec_from_wav and prepare_audio_vec_for_video never raise; a
\* missing, empty, silent or undecodable signal and a failed extraction give
\* None, and a call that gives None writes nothing to the store.
C16_AudioAbsenceNoError ==
  calls > 0 =>
    /\ acall.error = ""
    /\ (~acall.wav.exists \/ acall.wav.signal # "ok") => ~acall.ret.some
    /\ ~acall.ret.some => ~acall.wrote

\* C14: a failure confined to one candidate (download, validation, frame or
\* audio extraction) never aborts rank_candidates: no exception leaves the
\* loop, and on return every distinct identifier within the cap was evaluated.
C14_FailureIsolation ==
  /\ pc # "rank_raised"
  /\ Returned =>
       {Capped(candidates, max_eval)[k].video_id : k \in DOMAIN Capped(candidates, max_eval)}
         = {Capped(candidates, max_eval)[evaluated[k]].video_id : k \in DOMAIN evaluated}

\* C15: frame_hashes_from_dir never raises: it returns the hashes of the
\* decodable frames among those it reads, in frame order, one element
\* shorter per undecodable frame, and the empty list for an empty directory.
C15_BadFramesSkipped ==
  pc = "dir_done" =>
    /\ ~dir_ret.raised
    /\ dir_ret.hashes =
         SelectSeq(IF dir_limit # 0 THEN Take(frames_dir, dir_limit) ELSE frames_dir,
                   LAMBDA img : img # BadFrame)

\* C17: two pools listing the same distinct candidates in different orders,
\* every candidate scored in both runs, give the same ordered list and the
\* same decision on the same candidate, ties included.
BothRunsScoredAll ==
  /\ pc = "picked" /\ first_run.done
  /\ Len(out) = Len(candidates) /\ Len(first_run.out) = Len(candidates)
C17_OrderIndependent ==
  BothRunsScoredAll => out = first_run.out /\ best = first_run.best

\* C18: find_youtube_for_reel returns ok exactly when best is present; top
\* has at most 6 entries, in rank order, and best, when present, is its first
\* entry; a ranking that accepts no candidate returns ok = false with reason
\* "no confident match", best absent and top the first entries of the ranking.
C18_NegativeResult ==
  PipeReturned =>
    /\ result.ok <=> result.best.some
    /\ Len(result.top) <= TopLen
    /\ \A j, k \in DOMAIN result.top :
         j < k => result.top[j].fused_score >= result.top[k].fused_score
    /\ result.best.some => result.top # <<>> /\ result.best.val = result.top[1]
    /\ (pc = "pipe_computed" /\ ~best.some) =>
         /\ ~result.ok /\ result.reason = Some("no confident match")
         /\ ~result.best.some
         /\ Len(result.top) = Min(TopLen, Len(out))
         /\ \A k \in DOMAIN result.top : result.top[k] = score_to_dict(out[k])

\* a ranking of more than 6 scored candidates, none accepted
C18_Witness ==
  /\ pc = "pipe_computed" /\ ~result.ok
  /\ Len(out) > TopLen /\ Len(result.top) = TopLen

\* x equals the four-decimal number d4/10000 when rounded to four decimals
Near4(x, d4) == Abs(x - d4 * (SCALE \div 10000)) <= SCALE \div 20000

\* the scenario: median 3 and match fraction 0.85
ScenarioFrames ==
  /\ pc = "scen_picked"
  /\ fstats.median = 3 * SCALE /\ fstats.match_frac = Pct(85)

\* C19 as stated: frame score 0.8913; with audio similarity 0.40 the fused
\* score is 0.7239; with a title bonus of 0.10 the final score is 0.8239 and
\* the candidate is accepted.
C19_ScenarioAsStated ==
  ScenarioFrames =>
    /\ Near4(fstats.score, 8913)
    /\ audio_sim = Pct(40) =>
         /\ Near4(combined.fused, 7239)
         /\ tboost = Pct(10) =>
              /\ Near4(out[1].fused_score, 8239)
              /\ best = Some(out[1])

\* C19, amended: frame score 0.8913; with audio similarity 0.40 the fused
\* score is 0.7439; with a title bonus of 0.10 the final score is 0.8439 and
\* the candidate is accepted.
C19_Scenario ==
  ScenarioFrames =>
    /\ Near4(fstats.score, 8913)
    /\ audio_sim = Pct(40) =>
         /\ Near4(combined.fused, 7439)
         /\ tboost = Pct(10) =>
              /\ Near4(out[1].fused_score, 8439)
              /\ best = Some(out[1])

C19_Witness ==
  /\ ScenarioFrames /\ audio_sim = Pct(40) /\ tboost = Pct(10)
  /\ best.some /\ best.val.frame_match_frac = Pct(85)

\* C20: during one run of rank_candidates the frame hashes and the audio
\* vector of the reference are computed at most once, however many candidates
\* are scored.
C20_ReferenceOnce == ref_frame_runs <= 1 /\ ref_audio_runs <= 1

\* C21: once prepare_audio_vec_for_video has produced and stored a vector for
\* a video, the next call on the same unchanged video under the same version
\* tag returns that vector without computing the chroma vector and without
\* writing a record.
StoredByPrepare(c) == c.fn = "prepare_audio_vec_for_video" /\ c.wrote /\ c.ret.some
C21_CandidateAudioCached ==
  [][(/\ StoredByPrepare(acall) /\ ~damaged
      /\ calls' = calls + 1
      /\ acall'.fn = "prepare_audio_vec_for_video" /\ acall'.ver = acall.ver)
     => (acall'.ret = acall.ret /\ ~acall'.computed /\ ~acall'.wrote)]_vars

\* C22: a call of video_to_frame_hashes that returns never returns more than
\* limit hashes, whatever the store holds.
C22_FrameCap ==
  (calls > 0 /\ fcall.error = "" /\ fcall.limit # 0) => Len(fcall.ret) <= fcall.limit

\* both rankings are over and in both every acquired candidate was scored
BothRunsClean ==
  /\ pc = "picked" /\ first_run.done
  /\ first_run.clean /\ Len(out) = Len(acquired)

HashSet(s) == {s[k] : k \in DOMAIN s}
IsPermutation(s, t) ==
  /\ Len(s) = Len(t)
  /\ \A h \in HashSet(s) \cup HashSet(t) :
       Cardinality({k \in DOMAIN s : s[k] = h}) = Cardinality({k \in DOMAIN t : t[k] = h})

C25_AudioAbsentAcceptance ==
  (pc = "scen_picked" /\ threshold = HASH_THRESHOLD /\ audio_sim = 0) =>
    /\ fstats.match_frac >= MatchFracMin =>
         /\ fstats.median <= HASH_THRESHOLD * SCALE
         /\ fstats.score >= Pct(68)
         /\ out[1].fused_score >= FusedMin
    /\ best.some <=> fstats.match_frac >= MatchFracMin
    /\ best.some => best = Some(out[1])

\* the boundary: match fraction 0.55 and median 8, with and without a bonus
C25_Witness ==
  /\ pc = "scen_picked" /\ threshold = HASH_THRESHOLD /\ audio_sim = 0
  /\ fstats.match_frac = MatchFracMin /\ fstats.median = HASH_THRESHOLD * SCALE
  /\ fstats.score = Pct(68) /\ tboost = 0
  /\ best.some

====
